---- MODULE Spec2Model ----
(***************************************************************************)
(* Model of src/main.py: the iRacingTelemetry object, the background       *)
(* ingestion thread (update_data -> _process_telemetry), the start-up code *)
(* of __main__ and the plot callback update_plot that reads the buffer.    *)
(*                                                                         *)
(* Numbers: Throttle and Brake of the payload are floats; they are kept in *)
(* fixed point, one unit = 0.1, so 5 stands for 0.5 and 15 for 1.5.  A     *)
(* percentage is payload * 100 in the same unit, so 100 % is 100 * 10.     *)
(*                                                                         *)
(* A datagram is a sequence of units: unit 1 is the type byte, units 2..4  *)
(* are the three filler bytes and the rest is the text of the body, kept   *)
(* as one unit that says what bytes.decode and json.loads make of it.      *)
(***************************************************************************)
EXTENDS Integers, Sequences, FiniteSets, TLC

\* src/main.py:12 sets BUFFER_SIZE = 600; the model runs the same code with a
\* small capacity.
BUFFER_SIZE == 2
\* Number of calls of recvfrom that return or raise in one run of the model.
MaxPackets == 3

VARIABLES
    timestamps, throttle_values, brake_values,  \* the three parallel series
    game_running, car_detected,                 \* detection flags
    pcMain,         \* position of the main thread in __main__
    pc,             \* position of the ingestion thread in update_data
    data,           \* local of update_data: the datagram last received
    car_index,      \* local of update_data: the for-loop index
    clock,          \* what time.time() returns
    errors,         \* number of "Data error" lines printed by the handler
    nrecv,          \* number of calls of recvfrom that have returned or raised
    pushed,         \* history: samples whose three appends have completed
    pre,            \* history: buffer, flag and counters when `data` arrived
    last,           \* how the last call of recvfrom ended: "none", "datagram", "fault"
    pcPlot,         \* position of update_plot
    seen            \* what update_plot has read in the current frame

vars == <<timestamps, throttle_values, brake_values, game_running, car_detected,
          pcMain, pc, data, car_index, clock, errors, nrecv, last, pushed, pre,
          pcPlot, seen>>

buffer == <<timestamps, throttle_values, brake_values>>
locals == <<data, car_index>>
flags == <<game_running, car_detected>>
plot == <<pcPlot, seen>>

-----------------------------------------------------------------------------
(* Datagrams the simulator (or anything else on the port) may send.         *)

P(id) == [DriverId |-> id]
T(th, br) == [Throttle |-> th, Brake |-> br]
Doc(id, parts, tel) ==
    [DriverId |-> id, Sessions |-> <<[Participants |-> parts]>>, CarTelemetry |-> tel]
Json(doc) == [kind |-> "json", doc |-> doc]
Packet(type, unit) == <<type, 0, 0, 0, unit>>

Datagrams == <<
    <<>>,                                                         \* 1 zero-length
    <<1>>,                                                        \* 2 short, type 1
    <<2, 0, 0>>,                                                  \* 3 short, type 2
    Packet(1, Json(Doc(7, <<P(7)>>, <<T(5, 1)>>))),               \* 4 non-primary
    Packet(2, [kind |-> "badutf8"]),                              \* 5 not UTF-8
    Packet(2, [kind |-> "notjson"]),                              \* 6 not JSON
    Packet(2, Json(Doc(7, <<P(7)>>, <<T(5, 1)>>))),               \* 7 the plain case
    Packet(2, Json(Doc(7, <<P(8), P(7)>>, <<T(0, 0), T(15, -2)>>))), \* 8 out of [0,1]
    Packet(2, Json(Doc(7, <<P(7), P(7)>>, <<T(5, 1), T(10, 0)>>))),  \* 9 duplicate id
    Packet(2, Json(Doc(7, <<P(7), P(7)>>, <<T(5, 1)>>))),         \* 10 duplicate, short telemetry
    Packet(2, Json(Doc(7, <<P(8)>>, <<T(5, 1)>>))),               \* 11 no match
    Packet(2, Json(Doc(7, <<>>, <<T(5, 1)>>))),                   \* 12 no participants
    Packet(2, Json([DriverId |-> 7,
                    Sessions |-> <<[Participants |-> <<P(7)>>]>>])),  \* 13 no CarTelemetry
    Packet(2, Json([DriverId |-> 7, CarTelemetry |-> <<T(5, 1)>>])),  \* 14 no Sessions
    Packet(2, Json([Sessions |-> <<[Participants |-> <<P(7)>>]>>,
                    CarTelemetry |-> <<T(5, 1)>>])),              \* 15 no DriverId
    Packet(2, Json([Sessions |-> <<[Participants |-> <<>>]>>,
                    CarTelemetry |-> <<T(5, 1)>>])),              \* 16 no DriverId, nobody
    Packet(2, Json(Doc(7, <<P(8), P(7)>>, <<T(5, 1)>>))),         \* 17 index out of range
    Packet(2, Json(Doc(7, <<P(7)>>, <<[Brake |-> 1]>>)))          \* 18 no Throttle
>>

-----------------------------------------------------------------------------
(* update_data, the expressions of lines 35-51.                             *)

HasKey(obj, k) == k \in DOMAIN obj

\* data[4:]
Body(d) == SubSeq(d, 5, Len(d))

\* json.loads(data[4:].decode('utf-8')) returns (does not raise)
LoadsOk(d) == Len(Body(d)) = 1 /\ Body(d)[1].kind = "json"

\* json_data, when LoadsOk(data)
JsonOf(d) == Body(d)[1].doc
json_data == JsonOf(data)

\* packet_id == 2
IsPrimaryMutant(packet_id) == packet_id >= 1
IsPrimary(packet_id) == packet_id = 2

\* 'CarTelemetry' in json_data
HasCarTelemetryMutant(doc) == TRUE
HasCarTelemetry(doc) == HasKey(doc, "CarTelemetry")

\* json_data['Sessions'][0]['Participants'] evaluates (does not raise)
HasParticipants(doc) ==
    /\ HasKey(doc, "Sessions")
    /\ Len(doc.Sessions) >= 1
    /\ HasKey(doc.Sessions[1], "Participants")

Participants(doc) == doc.Sessions[1].Participants

\* car_data['DriverId'] == json_data['DriverId'] evaluates (does not raise)
CompareOk(doc, i) ==
    HasKey(Participants(doc)[i + 1], "DriverId") /\ HasKey(doc, "DriverId")

IsPlayerMutant(doc, i) == TRUE
IsPlayer(doc, i) == Participants(doc)[i + 1].DriverId = doc.DriverId

-----------------------------------------------------------------------------
(* _process_telemetry, the expressions of lines 60-75.                      *)

\* json_data['CarTelemetry'][car_index]['Throttle'] and [...]['Brake'] evaluate
ExtractOk(doc, i) ==
    /\ HasKey(doc, "CarTelemetry")
    /\ i + 1 <= Len(doc.CarTelemetry)
    /\ HasKey(doc.CarTelemetry[i + 1], "Throttle")
    /\ HasKey(doc.CarTelemetry[i + 1], "Brake")

ThrottlePercent(doc, i) == doc.CarTelemetry[i + 1].Throttle * 100
BrakePercent(doc, i) == doc.CarTelemetry[i + 1].Brake * 100

current_time == clock
throttle_percent == ThrottlePercent(json_data, car_index)
brake_percent == BrakePercent(json_data, car_index)

\* len(self.timestamps) > BUFFER_SIZE
OverLimitMutant(s) == Len(s) > BUFFER_SIZE + 1
OverLimit(s) == Len(s) > BUFFER_SIZE

\* s[-BUFFER_SIZE:]
TruncateMutant(s) ==
    IF Len(s) <= BUFFER_SIZE THEN s ELSE SubSeq(s, 1, BUFFER_SIZE)
Truncate(s) ==
    IF Len(s) <= BUFFER_SIZE THEN s ELSE SubSeq(s, Len(s) - BUFFER_SIZE + 1, Len(s))

\* [0] * BUFFER_SIZE
Zeros == [i \in 1..BUFFER_SIZE |-> 0]

\* where the handler of lines 53-55 leaves the loop: back at the top of while True
AfterExceptMutant == "stopped"
AfterExcept == "recv"

-----------------------------------------------------------------------------
Init ==
    /\ timestamps = <<>>
    /\ throttle_values = <<>>
    /\ brake_values = <<>>
    /\ game_running = FALSE
    /\ car_detected = FALSE
    /\ pcMain = "constructed"
    /\ pc = "notstarted"
    /\ data = <<>>
    /\ car_index = 0
    /\ clock = 1
    /\ errors = 0
    /\ nrecv = 0
    /\ last = "none"
    /\ pushed = <<>>
    /\ pre = [ts |-> <<>>, th |-> <<>>, br |-> <<>>, car |-> FALSE, errors |-> 0, npushed |-> 0]
    /\ pcPlot = "idle"
    /\ seen = [ts |-> <<>>, th |-> <<>>, br |-> <<>>]

(* __main__, lines 145-148 *)
Prefill ==
    /\ pcMain = "constructed"
    /\ timestamps' = Zeros
    /\ throttle_values' = Zeros
    /\ brake_values' = Zeros
    /\ pcMain' = "prefilled"
    /\ UNCHANGED <<flags, pc, locals, clock, errors, nrecv, last, pushed, pre, plot>>

(* __main__, lines 151-155: the thread starts, main() shows the plot *)
Start ==
    /\ pcMain = "prefilled"
    /\ pcMain' = "running"
    /\ pc' = "recv"
    /\ UNCHANGED <<buffer, flags, locals, clock, errors, nrecv, last, pushed, pre, plot>>

(* line 34: a datagram arrives *)
Recv ==
    /\ pcMain = "running"
    /\ pc = "recv"
    /\ nrecv < MaxPackets
    /\ \E i \in 1..Len(Datagrams) : data' = Datagrams[i]
    /\ car_index' = 0
    /\ nrecv' = nrecv + 1
    /\ last' = "datagram"
    /\ clock' = clock + 1
    /\ pre' = [ts |-> timestamps, th |-> throttle_values, br |-> brake_values,
               car |-> car_detected, errors |-> errors, npushed |-> Len(pushed)]
    /\ pc' = "frame"
    /\ UNCHANGED <<buffer, flags, pcMain, errors, pushed, plot>>

(* line 34: recvfrom raises (an OSError of the socket); `data` is not assigned *)
RecvFault ==
    /\ pcMain = "running"
    /\ pc = "recv"
    /\ nrecv < MaxPackets
    /\ nrecv' = nrecv + 1
    /\ last' = "fault"
    /\ clock' = clock + 1
    /\ pre' = [ts |-> timestamps, th |-> throttle_values, br |-> brake_values,
               car |-> car_detected, errors |-> errors, npushed |-> Len(pushed)]
    /\ pc' = "except"
    /\ UNCHANGED <<buffer, flags, pcMain, locals, errors, pushed, plot>>

FrameMutant ==
    /\ pcMain = "running"
    /\ pc = "frame"
    /\ IF Len(data) = 0
         THEN pc' = "except" /\ UNCHANGED game_running
         ELSE /\ game_running' = ~game_running
              /\ pc' = IF IsPrimary(data[1]) THEN "decode" ELSE "recv"
    /\ UNCHANGED <<buffer, car_detected, pcMain, locals, clock, errors, nrecv, last, pushed, pre, plot>>

(* lines 35-42 *)
Frame ==
    /\ pcMain = "running"
    /\ pc = "frame"
    /\ IF Len(data) = 0
         THEN pc' = "except" /\ UNCHANGED game_running
         ELSE /\ game_running' = TRUE
              /\ pc' = IF IsPrimary(data[1]) THEN "decode" ELSE "recv"
    /\ UNCHANGED <<buffer, car_detected, pcMain, locals, clock, errors, nrecv, last, pushed, pre, plot>>

(* lines 43-50, up to the evaluation of the list the for loop runs over *)
Decode ==
    /\ pcMain = "running"
    /\ pc = "decode"
    /\ IF ~LoadsOk(data)
         THEN pc' = "except" /\ UNCHANGED car_detected
         ELSE IF ~HasCarTelemetry(json_data)
         THEN pc' = "recv" /\ UNCHANGED car_detected
         ELSE /\ car_detected' = TRUE
              /\ pc' = IF HasParticipants(json_data) THEN "loop" ELSE "except"
    /\ UNCHANGED <<buffer, game_running, pcMain, locals, clock, errors, nrecv, last, pushed, pre, plot>>

(* lines 50-51: one iteration of the for loop, up to the call *)
Loop ==
    /\ pcMain = "running"
    /\ pc = "loop"
    /\ IF car_index >= Len(Participants(json_data))
         THEN pc' = "recv" /\ UNCHANGED car_index
         ELSE IF ~CompareOk(json_data, car_index)
         THEN pc' = "except" /\ UNCHANGED car_index
         ELSE IF IsPlayer(json_data, car_index)
         THEN pc' = "extract" /\ UNCHANGED car_index
         ELSE pc' = "loop" /\ car_index' = car_index + 1
    /\ UNCHANGED <<buffer, flags, pcMain, data, clock, errors, nrecv, last, pushed, pre, plot>>

(* lines 60-67 *)
Extract ==
    /\ pcMain = "running"
    /\ pc = "extract"
    /\ pc' = IF ~ExtractOk(json_data, car_index) THEN "except"
             ELSE IF OverLimit(timestamps) THEN "trunc_t" ELSE "app_t"
    /\ UNCHANGED <<buffer, flags, pcMain, locals, clock, errors, nrecv, last, pushed, pre, plot>>

(* line 68 *)
TruncTimestamps ==
    /\ pcMain = "running"
    /\ pc = "trunc_t"
    /\ timestamps' = Truncate(timestamps)
    /\ pc' = "trunc_th"
    /\ UNCHANGED <<throttle_values, brake_values, flags, pcMain, locals, clock, errors,
                   nrecv, last, pushed, pre, plot>>

(* line 69 *)
TruncThrottle ==
    /\ pcMain = "running"
    /\ pc = "trunc_th"
    /\ throttle_values' = Truncate(throttle_values)
    /\ pc' = "trunc_b"
    /\ UNCHANGED <<timestamps, brake_values, flags, pcMain, locals, clock, errors,
                   nrecv, last, pushed, pre, plot>>

(* line 70 *)
TruncBrake ==
    /\ pcMain = "running"
    /\ pc = "trunc_b"
    /\ brake_values' = Truncate(brake_values)
    /\ pc' = "app_t"
    /\ UNCHANGED <<timestamps, throttle_values, flags, pcMain, locals, clock, errors,
                   nrecv, last, pushed, pre, plot>>

(* line 73 *)
AppendTimestamp ==
    /\ pcMain = "running"
    /\ pc = "app_t"
    /\ timestamps' = Append(timestamps, current_time)
    /\ pc' = "app_th"
    /\ UNCHANGED <<throttle_values, brake_values, flags, pcMain, locals, clock, errors,
                   nrecv, last, pushed, pre, plot>>

AppendThrottleMutant ==
    /\ pcMain = "running"
    /\ pc = "app_th"
    /\ pc' = "app_b"
    /\ UNCHANGED <<buffer, flags, pcMain, locals, clock, errors, nrecv, last, pushed, pre, plot>>

(* line 74 *)
AppendThrottle ==
    /\ pcMain = "running"
    /\ pc = "app_th"
    /\ throttle_values' = Append(throttle_values, throttle_percent)
    /\ pc' = "app_b"
    /\ UNCHANGED <<timestamps, brake_values, flags, pcMain, locals, clock, errors,
                   nrecv, last, pushed, pre, plot>>

(* line 75, the return, and the next iteration of the for loop *)
AppendBrake ==
    /\ pcMain = "running"
    /\ pc = "app_b"
    /\ brake_values' = Append(brake_values, brake_percent)
    /\ pushed' = Append(pushed, <<current_time, throttle_percent, brake_percent>>)
    /\ car_index' = car_index + 1
    /\ pc' = "loop"
    /\ UNCHANGED <<timestamps, throttle_values, flags, pcMain, data, clock, errors,
                   nrecv, last, pre, plot>>

(* lines 53-55 *)
Except ==
    /\ pcMain = "running"
    /\ pc = "except"
    /\ errors' = errors + 1
    /\ pc' = AfterExcept
    /\ UNCHANGED <<buffer, flags, pcMain, locals, clock, nrecv, last, pushed, pre, plot>>

(* update_plot, lines 114-116: the test and the read of tel.timestamps *)
PlotTimestamps ==
    /\ pcMain = "running"
    /\ pcPlot = "idle"
    /\ IF timestamps = <<>>
         THEN UNCHANGED plot
         ELSE /\ seen' = [ts |-> timestamps, th |-> <<>>, br |-> <<>>]
              /\ pcPlot' = "throttle"
    /\ UNCHANGED <<buffer, flags, pcMain, pc, locals, clock, errors, nrecv, last, pushed, pre>>

(* line 118: the read of tel.throttle_values *)
PlotThrottle ==
    /\ pcMain = "running"
    /\ pcPlot = "throttle"
    /\ seen' = [seen EXCEPT !.th = throttle_values]
    /\ pcPlot' = "brake"
    /\ UNCHANGED <<buffer, flags, pcMain, pc, locals, clock, errors, nrecv, last, pushed, pre>>

(* lines 120-126: the read of tel.brake_values, and the frame is drawn *)
PlotBrake ==
    /\ pcMain = "running"
    /\ pcPlot = "brake"
    /\ seen' = [seen EXCEPT !.br = brake_values]
    /\ pcPlot' = "idle"
    /\ UNCHANGED <<buffer, flags, pcMain, pc, locals, clock, errors, nrecv, last, pushed, pre>>

\* line 116: [t - tel.timestamps[-1] for t in tel.timestamps]
RelTime(ts) == [i \in 1..Len(ts) |-> ts[i] - ts[Len(ts)]]
\* line 120: [-val for val in tel.brake_values]
Inverted(br) == [i \in 1..Len(br) |-> 0 - br[i]]
\* the x and y data handed to the two lines by set_data, lines 118 and 120
throttle_line == [x |-> RelTime(seen.ts), y |-> seen.th]
brake_line == [x |-> RelTime(seen.ts), y |-> Inverted(seen.br)]

(* lines 160-161: Ctrl-C ends the main thread and with it the process; the  *)
(* ingestion thread is a daemon (line 143) and is stopped where it stands.  *)
Interrupt ==
    /\ pcMain = "running"
    /\ pcMain' = "terminated"
    /\ UNCHANGED <<buffer, flags, pc, locals, clock, errors, nrecv, last, pushed, pre, plot>>

Next ==
    \/ Prefill \/ Start
    \/ Recv \/ RecvFault \/ Frame \/ Decode \/ Loop \/ Extract
    \/ TruncTimestamps \/ TruncThrottle \/ TruncBrake
    \/ AppendTimestamp \/ AppendThrottle \/ AppendBrake
    \/ Except
    \/ PlotTimestamps \/ PlotThrottle \/ PlotBrake

Spec == Init /\ [][Next]_vars

(* The program without its plot callback: update_plot writes nothing the     *)
(* ingestion thread reads, so its steps are left out of the liveness check.  *)
NextIngest ==
    \/ Prefill \/ Start
    \/ Recv \/ RecvFault \/ Frame \/ Decode \/ Loop \/ Extract
    \/ TruncTimestamps \/ TruncThrottle \/ TruncBrake
    \/ AppendTimestamp \/ AppendThrottle \/ AppendBrake
    \/ Except

(* Once a datagram is in, the thread keeps running: every step but the       *)
(* blocking recvfrom is taken eventually.                                     *)
Processing ==
    \/ Frame \/ Decode \/ Loop \/ Extract
    \/ TruncTimestamps \/ TruncThrottle \/ TruncBrake
    \/ AppendTimestamp \/ AppendThrottle \/ AppendBrake
    \/ Except

FairSpec == Init /\ [][NextIngest]_vars /\ WF_vars(Processing)

(* The same with the user's Ctrl-C.                                          *)
NextShutdown ==
    \/ Prefill \/ Start
    \/ Recv \/ RecvFault \/ Frame \/ Decode \/ Loop \/ Extract
    \/ TruncTimestamps \/ TruncThrottle \/ TruncBrake
    \/ AppendTimestamp \/ AppendThrottle \/ AppendBrake
    \/ Except
    \/ Interrupt

ShutdownSpec == Init /\ [][NextShutdown]_vars

-----------------------------------------------------------------------------
(* Vocabulary of the properties.                                             *)

Min(a, b) == IF a <= b THEN a ELSE b
Range(s) == {s[i] : i \in 1..Len(s)}
IsSuffix(s, t) == Len(s) <= Len(t) /\ s = SubSeq(t, Len(t) - Len(s) + 1, Len(t))

PushLabels == {"trunc_t", "trunc_th", "trunc_b", "app_t", "app_th", "app_b"}
ProcessingLabels == {"frame", "decode", "loop", "extract", "except"} \cup PushLabels

\* no call of _process_telemetry is between its first write and its last
NoPushInProgress == pc \notin PushLabels
\* the datagram in `data` has been dealt with and the loop is back at recvfrom
PacketDone == pc = "recv" /\ last = "datagram"
\* the handler of lines 53-55 ran for the datagram in `data`
Failed == errors > pre.errors
\* the samples pushed for the datagram in `data`
NewSamples == SubSeq(pushed, pre.npushed + 1, Len(pushed))
BufferUnchanged ==
    timestamps = pre.ts /\ throttle_values = pre.th /\ brake_values = pre.br

EqualLengths ==
    Len(timestamps) = Len(throttle_values) /\ Len(timestamps) = Len(brake_values)
\* the buffer as a sequence of samples, when the three series have one length
BufferSamples ==
    [i \in 1..Len(timestamps) |-> <<timestamps[i], throttle_values[i], brake_values[i]>>]
ZeroSamples == [i \in 1..BUFFER_SIZE |-> <<0, 0, 0>>]
PercentMax == 100 * 10

RequiredFields == {"DriverId", "Sessions", "CarTelemetry"}
\* a type 2 datagram whose body parses
ParsedPrimary(d) == Len(d) >= 5 /\ d[1] = 2 /\ LoadsOk(d)
LacksRequiredField(d) ==
    ParsedPrimary(d) /\ \E k \in RequiredFields : ~HasKey(JsonOf(d), k)
\* all required fields, every participant with a DriverId, and CarTelemetry
\* parallel to Participants with Throttle and Brake in every entry
WellFormedPrimary(d) ==
    /\ ParsedPrimary(d)
    /\ \A k \in RequiredFields : HasKey(JsonOf(d), k)
    /\ HasParticipants(JsonOf(d))
    /\ Len(JsonOf(d).CarTelemetry) = Len(Participants(JsonOf(d)))
    /\ \A i \in 0..(Len(Participants(JsonOf(d))) - 1) :
          CompareOk(JsonOf(d), i) /\ ExtractOk(JsonOf(d), i)
Matches(doc) ==
    {i \in 0..(Len(Participants(doc)) - 1) : Participants(doc)[i + 1].DriverId = doc.DriverId}
FirstMatch(doc) == CHOOSE i \in Matches(doc) : \A j \in Matches(doc) : i <= j

-----------------------------------------------------------------------------
\* C1: every frame update_plot reads while the ingestion thread pushes is a
\* consistent snapshot: the three series it read have one length, and position
\* i of each belongs to one sample (a start-up zero or a pushed sample).
C1_ConsistentSnapshot ==
    (pcPlot = "idle" /\ seen.ts # <<>>) =>
        /\ Len(throttle_line.x) = Len(throttle_line.y)
        /\ Len(brake_line.x) = Len(brake_line.y)
        /\ \A i \in 1..Len(seen.ts) :
              <<seen.ts[i], seen.th[i], seen.br[i]>> \in {<<0, 0, 0>>} \cup Range(pushed)

\* C2: the buffer never holds more than BUFFER_SIZE entries, and after each push
\* it holds exactly min(total pushes, BUFFER_SIZE).
C2_LengthIsMin ==
    /\ Len(timestamps) <= BUFFER_SIZE
    /\ (NoPushInProgress /\ Len(pushed) >= 1) =>
          Len(timestamps) = Min(Len(pushed), BUFFER_SIZE)

\* C3: once BUFFER_SIZE + 1 samples s0..sN have been pushed the buffer is
\* [s1..sN]: the oldest is evicted and the rest kept in order.
C3_EvictsOldest ==
    (NoPushInProgress /\ Len(pushed) = BUFFER_SIZE + 1) =>
        /\ EqualLengths
        /\ BufferSamples = SubSeq(pushed, 2, BUFFER_SIZE + 1)

\* C4 as stated: after any pushes the buffer is a contiguous suffix of the
\* sequence of pushed samples, in all three series.
C4_SuffixOfPushed ==
    (NoPushInProgress /\ Len(pushed) >= 1) =>
        EqualLengths /\ IsSuffix(BufferSamples, pushed)

\* C4 amended: after any pushes the buffer is a contiguous suffix of the
\* BUFFER_SIZE start-up zeros followed by the pushed samples in push order, in
\* all three series; it holds BUFFER_SIZE entries before the first push and
\* BUFFER_SIZE + 1 after it.
C4_SuffixOfZerosAndPushed ==
    (NoPushInProgress /\ pcMain # "constructed") =>
        /\ EqualLengths
        /\ IsSuffix(BufferSamples, ZeroSamples \o pushed)
        /\ Len(timestamps) = IF pushed = <<>> THEN BUFFER_SIZE ELSE BUFFER_SIZE + 1

\* a pushed sample has been evicted
C4_Witness ==
    NoPushInProgress /\ Len(pushed) >= BUFFER_SIZE + 2

\* C5: a datagram whose processing fails leaves the buffer as it was: no sample
\* pushed, none changed.
C5_FailureLeavesBuffer ==
    (PacketDone /\ Failed) => (BufferUnchanged /\ NewSamples = <<>>)

\* C6: the loop is always in Receiving or in one of the steps of Processing,
\* and from every step of Processing, failed or not, it gets back to Receiving.
C6_ReturnsToReceiving ==
    /\ [](pc \in {"notstarted", "recv"} \cup ProcessingLabels)
    /\ (pc \in ProcessingLabels) ~> (pc = "recv")

\* the loop is back in Receiving after a datagram that failed
C6_Witness ==
    PacketDone /\ Failed

\* C7: a well-formed type 2 datagram pushes at most one sample, and when a
\* participant carries the top-level DriverId it pushes exactly one, taken from
\* CarTelemetry at the index of the first such participant.
C7_OneSamplePerPacket ==
    (PacketDone /\ WellFormedPrimary(data)) =>
        /\ Len(NewSamples) <= 1
        /\ Matches(json_data) # {} =>
              NewSamples = << <<clock,
                                ThrottlePercent(json_data, FirstMatch(json_data)),
                                BrakePercent(json_data, FirstMatch(json_data))>> >>

\* C8: a datagram whose type byte is not 2 pushes nothing and records no error;
\* buffer and car_detected stay as they were.
C8_NonPrimaryNoEffect ==
    (PacketDone /\ Len(data) >= 1 /\ data[1] # 2) =>
        /\ BufferUnchanged
        /\ NewSamples = <<>>
        /\ car_detected = pre.car
        /\ errors = pre.errors

\* a full-length datagram of another type, with a valid body, has been dealt with
C8_Witness ==
    PacketDone /\ Len(data) >= 5 /\ data[1] # 2 /\ LoadsOk(data)

\* C9: every stored throttle and brake percentage lies in [0, 100].
C9_PercentInRange ==
    /\ \A i \in 1..Len(throttle_values) : throttle_values[i] \in 0..PercentMax
    /\ \A i \in 1..Len(brake_values) : brake_values[i] \in 0..PercentMax

\* C10 as stated: a type 2 datagram whose body parses but lacks DriverId,
\* Sessions or CarTelemetry is recorded as an error and pushes no sample.
C10_MissingFieldIsError ==
    (PacketDone /\ LacksRequiredField(data)) =>
        (errors = pre.errors + 1 /\ NewSamples = <<>>)

\* C10 amended: such a datagram pushes no sample and leaves the buffer as it
\* was; it is recorded as an error exactly when CarTelemetry is present and
\* Sessions[0].Participants is not an empty list (Sessions missing, or DriverId
\* missing with somebody in the list).
C10_MissingFieldNoSample ==
    (PacketDone /\ LacksRequiredField(data)) =>
        /\ NewSamples = <<>>
        /\ BufferUnchanged
        /\ errors \in {pre.errors, pre.errors + 1}
        /\ Failed <=>
              /\ HasKey(json_data, "CarTelemetry")
              /\ ~(HasParticipants(json_data) /\ Participants(json_data) = <<>>)

\* a datagram without CarTelemetry has been dropped without an error
C10_Witness ==
    /\ PacketDone
    /\ LacksRequiredField(data)
    /\ ~HasKey(json_data, "CarTelemetry")
    /\ ~Failed

-----------------------------------------------------------------------------
\* a type 2 datagram whose body parses and carries what the resolver reads: a
\* top-level DriverId and a participant list whose entries have a DriverId
ResolverInput(d) ==
    /\ ParsedPrimary(d)
    /\ HasKey(JsonOf(d), "DriverId")
    /\ HasParticipants(JsonOf(d))
    /\ \A i \in 1..Len(Participants(JsonOf(d))) : HasKey(Participants(JsonOf(d))[i], "DriverId")
NoMatch(d) == ResolverInput(d) /\ Matches(JsonOf(d)) = {}
Resolves(d) == ResolverInput(d) /\ Matches(JsonOf(d)) # {}
\* a type 2 datagram whose body parses and has the key CarTelemetry
CarriesTelemetry(d) ==
    Len(d) >= 1 /\ d[1] = 2 /\ LoadsOk(d) /\ HasKey(JsonOf(d), "CarTelemetry")
\* `new` is the newest BUFFER_SIZE entries of `old` (all of it, when shorter)
KeptNewest(old, new) ==
    /\ Len(new) = Min(Len(old), BUFFER_SIZE)
    /\ \A i \in 1..Len(new) : new[i] = old[Len(old) - Len(new) + i]

\* C11: a datagram shorter than 5 bytes is rejected as malformed (recorded as a
\* failure, nothing pushed) whatever its type byte, and a datagram of 5 bytes or
\* more with first byte 2 is taken as type 2 with the bytes from offset 4 on as
\* its body.
C11_ShortIsMalformed ==
    /\ (PacketDone /\ Len(data) < 5) => (Failed /\ NewSamples = <<>>)
    /\ (last = "datagram" /\ Len(data) >= 5 /\ data[1] = 2) =>
          (IsPrimary(data[1]) /\ Len(Body(data)) = Len(data) - 4
             /\ \A i \in 1..Len(Body(data)) : Body(data)[i] = data[i + 4])

\* C12: a type 2 datagram whose participant list is empty or has no entry with
\* the top-level DriverId pushes nothing and records no error; one whose only
\* participant matches pushes the sample of CarTelemetry index 0.
C12_NotFoundIsSilent ==
    PacketDone =>
        /\ NoMatch(data) => (NewSamples = <<>> /\ BufferUnchanged /\ ~Failed)
        /\ (/\ ResolverInput(data)
            /\ Len(Participants(json_data)) = 1
            /\ Matches(json_data) = {0}
            /\ ExtractOk(json_data, 0)) =>
              NewSamples = << <<clock, ThrottlePercent(json_data, 0),
                                BrakePercent(json_data, 0)>> >>

\* a datagram with telemetry and participants, none of them the driver, is done
C12_Witness ==
    /\ PacketDone
    /\ NoMatch(data)
    /\ Participants(json_data) # <<>>
    /\ HasKey(json_data, "CarTelemetry")

\* C13 as stated: after recvfrom has raised a socket fault the loop stops; it
\* is not back at recvfrom for another attempt.
C13_FaultIsFatal ==
    last = "fault" => pc # "recv"

\* C13 amended: a fault of recvfrom is handled like every other exception: the
\* handler records one error, nothing else changes, and the loop is back at
\* recvfrom where the next attempt can be made.
C13_FaultIsRetried ==
    last = "fault" =>
        /\ pc \in {"except", "recv"}
        /\ BufferUnchanged
        /\ car_detected = pre.car
        /\ pc = "recv" =>
              /\ errors = pre.errors + 1
              /\ (pcMain = "running" /\ nrecv < MaxPackets) => ENABLED Recv

\* the loop is back at recvfrom after a fault
C13_Witness ==
    last = "fault" /\ pc = "recv"

\* C14: when the shutdown signal has been given the loop has stopped between
\* two receive attempts: no datagram is left half processed and the three
\* series are whole.
C14_StopsBetweenPackets ==
    pcMain = "terminated" => (pc = "recv" /\ EqualLengths)

\* C15: once a datagram has been received and line 39 is behind, game_running
\* is true, whatever the datagram.
C15_AnyDatagramSetsGameRunning ==
    (last = "datagram" /\ pc # "frame") => game_running

C17_AtMostOneOver ==
    /\ [](/\ Len(timestamps) <= BUFFER_SIZE + 1
          /\ Len(throttle_values) <= BUFFER_SIZE + 1
          /\ Len(brake_values) <= BUFFER_SIZE + 1)
    /\ [][/\ (pc = "trunc_t" /\ pc' = "trunc_th") => KeptNewest(timestamps, timestamps')
          /\ (pc = "trunc_th" /\ pc' = "trunc_b") =>
                KeptNewest(throttle_values, throttle_values')
          /\ (pc = "trunc_b" /\ pc' = "app_t") => KeptNewest(brake_values, brake_values')
         ]_vars

\* the second matching participant of one packet is about to be appended to
\* series that have just been truncated
C17_Witness ==
    /\ pc = "app_t"
    /\ Len(NewSamples) = 1
    /\ Len(pre.ts) = BUFFER_SIZE + 1
    /\ Len(timestamps) = BUFFER_SIZE

\* C18: whenever the loop is at recvfrom the three series have one length.
C18_EqualLengthsAtReceiving ==
    pc = "recv" => EqualLengths

\* back at recvfrom after a packet that pushed a sample and then failed
C18_Witness ==
    PacketDone /\ Failed /\ NewSamples # <<>>

====
